---------------------------- MODULE Spec2Model ----------------------------
(***************************************************************************)
(* Model of the deep-zoom subsystem of FractalRenderer: DeepZoomManager    *)
(* (precision policy, reference orbit, zoom-path animation),               *)
(* ReferenceOrbitBuffer and the VulkanEngine handlers that drive them.     *)
(*                                                                         *)
(* Number representation.                                                  *)
(*  - A double used linearly (centre coordinates, orbit iterates, times)   *)
(*    is an exact rational [nan, n, d] in lowest terms, or NaN.  The       *)
(*    inputs are chosen among values whose iterates a double represents    *)
(*    exactly, so the rational arithmetic is the double arithmetic.        *)
(*  - The zoom spans 1e0 .. 1e-40, so it is kept by sign and by the        *)
(*    base-10 logarithm of its magnitude in units of 1/LogScale decade.    *)
(*  - An ArbitraryFloat is kept as the double its to_double() returns.     *)
(***************************************************************************)
EXTENDS Integers, Sequences, FiniteSets, TLC

\* ------------------------------------------------------------------------
\* Bounds of the model
\* ------------------------------------------------------------------------
MaxIter == 4        \* largest max_iterations drawn as an input
CenterBound == 1    \* integer centre coordinates range over -CenterBound..CenterBound
MaxOps == 4         \* handler and interface calls in one run of the program
MaxFrameOps == 3    \* calls followed once the frame loop runs in Deep_Zoom mode
MaxLiveUpdates == 8 \* frames followed while one animation runs to its end
MaxLoopOps == 6     \* calls followed in a run of the frame loop with one animation

\* ------------------------------------------------------------------------
\* double, linear: exact rationals and NaN
\* ------------------------------------------------------------------------
Abs(x) == IF x < 0 THEN -x ELSE x

RECURSIVE GCD(_, _)
GCD(a, b) == IF b = 0 THEN a ELSE GCD(b, a % b)

NaN == [nan |-> TRUE, n |-> 0, d |-> 1]

\* the rational num/den (den # 0) in lowest terms with a positive denominator
Rat(num, den) ==
    LET g == GCD(Abs(num), Abs(den))
        s == IF den < 0 THEN -1 ELSE 1
    IN  [nan |-> FALSE, n |-> s * (num \div g), d |-> s * (den \div g)]

Fin(v) == [nan |-> FALSE, n |-> v, d |-> 1]

DAdd(a, b) ==
    IF a.nan \/ b.nan THEN NaN
    ELSE LET g == GCD(a.d, b.d)
         IN  Rat(a.n * (b.d \div g) + b.n * (a.d \div g), (a.d \div g) * b.d)
DSub(a, b) == IF a.nan \/ b.nan THEN NaN ELSE DAdd(a, [b EXCEPT !.n = 0 - b.n])
DMul(a, b) == IF a.nan \/ b.nan THEN NaN ELSE Rat(a.n * b.n, a.d * b.d)
\* a / b for b # 0 (0/0 is NaN; x/0 with x # 0 is infinite and not drawn by the model)
DDiv(a, b) == IF a.nan \/ b.nan \/ b.n = 0 THEN NaN ELSE Rat(a.n * b.d, a.d * b.n)

\* comparisons with a NaN operand are false, as in IEEE 754
DGt(a, b) == ~a.nan /\ ~b.nan /\ a.n * b.d > b.n * a.d
DGe(a, b) == ~a.nan /\ ~b.nan /\ a.n * b.d >= b.n * a.d
DEq(a, b) == ~a.nan /\ ~b.nan /\ a.n * b.d = b.n * a.d

\* std::complex<double>
Cx(re, im) == [re |-> re, im |-> im]
CZero == Cx(Fin(0), Fin(0))
CAdd(a, b) == Cx(DAdd(a.re, b.re), DAdd(a.im, b.im))
CMul(a, b) == Cx(DSub(DMul(a.re, b.re), DMul(a.im, b.im)),
                 DAdd(DMul(a.re, b.im), DMul(a.im, b.re)))
\* |z|^2; std::abs(z) is its square root, NaN when a component is NaN
NormSq(z) == DAdd(DMul(z.re, z.re), DMul(z.im, z.im))


\* ------------------------------------------------------------------------
\* double, logarithmic: the zoom.  |zoom| = 10^(lg/1000); sgn is its sign.
\* ------------------------------------------------------------------------
ZNaN == [nan |-> TRUE, sgn |-> 0, lg |-> 0]
ZZero == [nan |-> FALSE, sgn |-> 0, lg |-> 0]
ZPos(lg) == [nan |-> FALSE, sgn |-> 1, lg |-> lg]
ZNeg(lg) == [nan |-> FALSE, sgn |-> -1, lg |-> lg]
\* the zoom 10^e
Pow10(e) == ZPos(1000 * e)

ZAbs(z) == IF z.nan THEN ZNaN ELSE [z EXCEPT !.sgn = Abs(z.sgn)]
\* z > 10^e and z >= 10^e for a non-negative z; false for NaN
ZGtPow10(z, e) == ~z.nan /\ z.sgn = 1 /\ z.lg > 1000 * e
ZGePow10(z, e) == ~z.nan /\ z.sgn = 1 /\ z.lg >= 1000 * e

\* ------------------------------------------------------------------------
\* PrecisionMode, ReferenceOrbitPoint, ReferenceOrbitBuffer
\* ------------------------------------------------------------------------
PrecisionMode == {"Double", "Quad", "Arbitrary"}

\* a value-initialised ReferenceOrbitPoint, as vector::resize appends it
DefaultPoint == [value |-> CZero, iteration |-> 0]

RECURSIVE VectorResize(_, _)
\* std::vector<ReferenceOrbitPoint>::resize(n), n >= 0: truncates, or appends
\* value-initialised points
VectorResize(data, n) ==
    IF Len(data) >= n THEN SubSeq(data, 1, n)
    ELSE VectorResize(Append(data, DefaultPoint), n)

\* an int passed as size_t: a negative one becomes a size above max_size(),
\* and vector::resize throws std::length_error before it changes anything
ResizeThrows(new_size) == new_size < 0

\* History of a buffer: log holds one entry per operation on the buffer made
\* by the handler that produced the state (the entry of a replacement of
\* cpu_data is written where the function that replaced it returns or hands
\* the buffer to upload_to_gpu).  was_dirty / is_dirty: the flag before and
\* after; size: cpu_data.size() after; points: the vec2 slots of the GPU
\* buffer after; result: what upload_to_gpu did.
Logged(buf, op, result, new) ==
    [new EXCEPT !.log = Append(buf.log,
        [op |-> op, was_dirty |-> buf.is_dirty, is_dirty |-> new.is_dirty,
         size |-> Len(new.cpu_data), points |-> Len(new.gpu_buffer.words) \div 2,
         result |-> result])]

ClearLog(buf) == [buf EXCEPT !.log = <<>>]

\* ReferenceOrbitBuffer::resize
resize(buf, new_size) ==
    Logged(buf, "resize", "none",
           [buf EXCEPT !.cpu_data = VectorResize(buf.cpu_data, new_size),
                       !.is_dirty = TRUE])

\* the 4-byte words of the GPU buffer: a float, or a piece of a raw CPU record
F32(v) == [t |-> "f32", v |-> v]

RECURSIVE Vec2Words(_)
\* std::vector<glm::vec2> gpu_data: (float)real, (float)imag of every point
Vec2Words(data) ==
    IF data = <<>> THEN <<>>
    ELSE <<F32(Head(data).value.re), F32(Head(data).value.im)>> \o Vec2Words(Tail(data))

NullGpuBuffer == [buffer |-> FALSE, words |-> <<>>]
\* a buffer object as constructed: no data, no GPU buffer, is_dirty = true
NewOrbitBuffer ==
    [cpu_data |-> <<>>, gpu_buffer |-> NullGpuBuffer, is_dirty |-> TRUE, log |-> <<>>]

\* a faulty upload that clears is_dirty before it creates the buffer: C8 must
\* tell it from upload_to_gpu
UploadClearingFirst(buf, create_ok) ==
    IF ~buf.is_dirty \/ buf.cpu_data = <<>> THEN Logged(buf, "upload_to_gpu", "returned", buf)
    ELSE IF ~create_ok
         THEN Logged(buf, "upload_to_gpu", "failed",
                     [buf EXCEPT !.gpu_buffer = NullGpuBuffer, !.is_dirty = FALSE])
         ELSE Logged(buf, "upload_to_gpu", "uploaded",
                     [buf EXCEPT !.gpu_buffer = [buffer |-> TRUE,
                                                 words |-> Vec2Words(buf.cpu_data)],
                                 !.is_dirty = FALSE])

\* ReferenceOrbitBuffer::upload_to_gpu; create_ok: vmaCreateBuffer returns VK_SUCCESS
upload_to_gpu(buf, create_ok) ==
    IF ~buf.is_dirty \/ buf.cpu_data = <<>> THEN Logged(buf, "upload_to_gpu", "returned", buf)
    ELSE IF ~create_ok
         THEN Logged(buf, "upload_to_gpu", "failed",
                     [buf EXCEPT !.gpu_buffer = NullGpuBuffer])
         ELSE Logged(buf, "upload_to_gpu", "uploaded",
                     [buf EXCEPT !.gpu_buffer = [buffer |-> TRUE,
                                                 words |-> Vec2Words(buf.cpu_data)],
                                 !.is_dirty = FALSE])

\* ------------------------------------------------------------------------
\* DeepZoomManager: precision policy
\* ------------------------------------------------------------------------
\* static_cast<int>(digits_needed * 3.32) with digits_needed = -log10(zoom_val).
\* For zoom_val = 0 the operand is +inf and for NaN it is NaN: the conversion is
\* undefined behaviour, and cast_ub is the int the build produces.
DigitsTimes332(zoom_val, cast_ub) ==
    IF zoom_val.nan \/ zoom_val.sgn = 0 THEN cast_ub
    ELSE LET p == (0 - zoom_val.lg) * 332
         IN  IF p >= 0 THEN p \div 100000 ELSE 0 - ((0 - p) \div 100000)

Min(a, b) == IF a < b THEN a ELSE b
Max(a, b) == IF a > b THEN a ELSE b

\* DeepZoomManager::calculate_required_precision_bits
calculate_required_precision_bits(st, cast_ub) ==
    LET zoom_val == ZAbs(st.zoom)
    IN  IF ZGePow10(zoom_val, -14) THEN 64
        ELSE LET bits == 64 + DigitsTimes332(zoom_val, cast_ub) + 64
             IN  Max(128, Min(bits, 4096))

\* DeepZoomManager::update_precision_mode
update_precision_mode(st, cast_ub) ==
    LET zoom_val == ZAbs(st.zoom)
    IN  IF ZGtPow10(zoom_val, -14)
        THEN [st EXCEPT !.precision_mode = "Double",
                        !.precision_bits = 64,
                        !.high_precision_enabled = FALSE]
        ELSE IF ZGtPow10(zoom_val, -30)
        THEN [st EXCEPT !.precision_mode = "Quad",
                        !.precision_bits = calculate_required_precision_bits(st, cast_ub),
                        !.high_precision_enabled = TRUE]
        ELSE [st EXCEPT !.precision_mode = "Arbitrary",
                        !.precision_bits = calculate_required_precision_bits(st, cast_ub),
                        !.high_precision_enabled = TRUE]

\* ------------------------------------------------------------------------
\* HighPrecisionComplex (MPFR at a fixed precision).  Every iterate the model
\* reaches is exactly representable at the precisions in use, so an MPFR
\* value is the same rational, carrying its precision.
\* ------------------------------------------------------------------------
HPComplex(re, im, prec) == [re |-> re, im |-> im, prec |-> prec]
\* a faulty square, (a^2 - b^2) + (ab)i: C29 must tell it from HPSquare
SquareWithoutDoubling(z) ==
    HPComplex(DSub(DMul(z.re, z.re), DMul(z.im, z.im)), DMul(z.re, z.im), z.prec)

\* HighPrecisionComplex::square: (a^2 - b^2) + (2ab)i
HPSquare(z) ==
    HPComplex(DSub(DMul(z.re, z.re), DMul(z.im, z.im)),
              DMul(DMul(Fin(2), z.re), z.im), z.prec)
\* HighPrecisionComplex::operator+ (the result takes the left operand's precision)
HPAdd(a, b) == HPComplex(DAdd(a.re, b.re), DAdd(a.im, b.im), a.prec)
\* HighPrecisionComplex::magnitude_squared
magnitude_squared(z) == DAdd(DMul(z.re, z.re), DMul(z.im, z.im))
\* HighPrecisionComplex::to_complex_double (mpfr_get_d of both parts)
to_complex_double(z) == Cx(z.re, z.im)

\* ------------------------------------------------------------------------
\* DeepZoomManager: reference orbit
\* ------------------------------------------------------------------------
\* a faulty escape test, >= for >: C2 must tell it from EscapedDouble
EscapedDoubleInclusive(z) == DGe(NormSq(z), Fin(4))

\* the escape test of the double path: std::abs(z) > 2.0
EscapedDouble(z) == DGt(NormSq(z), Fin(4))
\* the safety check of the double path, reached only when mag > 2.0 is false:
\* mag > 1e10 and isinf(mag) are then false, which leaves isnan(mag)
DivergedDouble(z) == NormSq(z).nan
\* a faulty escape test of the high-precision path, mag_sq > 8.0: C20 must tell
\* it from EscapedHP
EscapedHPAboveEight(z) == DGt(magnitude_squared(z), Fin(8))

\* the escape test of the high-precision path: mag_sq > 4.0 (mpfr_cmp_d, which
\* is 0 for a NaN operand)
EscapedHP(z) == DGt(magnitude_squared(z), Fin(4))

RECURSIVE DoubleOrbitLoop(_, _, _, _, _)
\* the for loop of compute_reference_orbit from index i on; data is 1-based
DoubleOrbitLoop(data, z, i, c, max_iterations) ==
    IF i >= max_iterations THEN [data |-> data, escape_iter |-> max_iterations]
    ELSE LET stored == [data EXCEPT ![i + 1] = [value |-> z, iteration |-> i]]
         IN  IF EscapedDouble(z) THEN [data |-> stored, escape_iter |-> i]
             ELSE IF DivergedDouble(z) THEN [data |-> stored, escape_iter |-> i]
             ELSE DoubleOrbitLoop(stored, CAdd(CMul(z, z), c), i + 1, c, max_iterations)

RECURSIVE HighPrecisionOrbitLoop(_, _, _, _, _)
\* the for loop of compute_reference_orbit_high_precision from index i on
HighPrecisionOrbitLoop(data, z, i, c, max_iterations) ==
    IF i >= max_iterations THEN [data |-> data, escape_iter |-> max_iterations]
    ELSE LET stored == [data EXCEPT ![i + 1] =
                            [value |-> to_complex_double(z), iteration |-> i]]
         IN  IF EscapedHP(z) THEN [data |-> stored, escape_iter |-> i]
             ELSE HighPrecisionOrbitLoop(stored, HPAdd(HPSquare(z), c), i + 1, c,
                                         max_iterations)

\* a faulty trim, one element short: C1 must tell it from TrimToEscape
TrimToEscapeShort(buf, escape_iter, max_iterations) ==
    IF escape_iter < max_iterations THEN resize(buf, escape_iter) ELSE buf

\* "Trim to actual escape iteration"
TrimToEscape(buf, escape_iter, max_iterations) ==
    IF escape_iter < max_iterations THEN resize(buf, escape_iter + 1) ELSE buf

\* a faulty end that publishes the requested length, not the trimmed one: C23
\* must tell it from PublishOrbit
PublishRequestedLength(m, trimmed, create_ok) ==
    [m EXCEPT !.state.reference_iterations = m.state.max_iterations,
              !.state.deep_zoom_iterations = m.state.max_iterations,
              !.reference_orbit = upload_to_gpu(trimmed, create_ok)]

\* the end of both paths: reference_iterations and deep_zoom_iterations take
\* the length, then the buffer is uploaded
\* (the copy of centre and zoom into FractalState::hp_coords, made between the
\* two when a FractalState is attached, is read by update_from_state only)
PublishOrbit(m, trimmed, create_ok) ==
    [m EXCEPT !.state.reference_iterations = Len(trimmed.cpu_data),
              !.state.deep_zoom_iterations = Len(trimmed.cpu_data),
              !.reference_orbit = upload_to_gpu(trimmed, create_ok)]

\* what both paths do once the loop has run: trim, publish the length, upload
FinishOrbit(m, buf, loop, create_ok) ==
    PublishOrbit(m,
                 TrimToEscape([buf EXCEPT !.cpu_data = loop.data],
                              loop.escape_iter, m.state.max_iterations),
                 create_ok)

\* compute_reference_orbit_high_precision from the loop on, buf being the
\* resized buffer
HighPrecisionOrbit(m, buf, env) ==
    FinishOrbit(m, buf,
                HighPrecisionOrbitLoop(
                    buf.cpu_data,
                    HPComplex(Fin(0), Fin(0), m.state.precision_bits), 0,
                    HPComplex(m.state.center_x, m.state.center_y, m.state.precision_bits),
                    m.state.max_iterations),
                env.create_ok)

\* DeepZoomManager::compute_reference_orbit_high_precision
compute_reference_orbit_high_precision(m, env) ==
    IF ResizeThrows(m.state.max_iterations) THEN [m EXCEPT !.threw = TRUE]
    ELSE HighPrecisionOrbit(m, resize(m.reference_orbit, m.state.max_iterations), env)

\* the double path from the loop on, buf being the resized buffer
DoubleOrbit(m, buf, env) ==
    FinishOrbit(m, buf,
                DoubleOrbitLoop(buf.cpu_data, CZero, 0,
                                Cx(m.state.center_x, m.state.center_y),
                                m.state.max_iterations),
                env.create_ok)

\* the double path of compute_reference_orbit
compute_reference_orbit_double(m, env) ==
    IF ResizeThrows(m.state.max_iterations) THEN [m EXCEPT !.threw = TRUE]
    ELSE DoubleOrbit(m, resize(m.reference_orbit, m.state.max_iterations), env)

\* compute_reference_orbit once update_precision_mode has run
ComputeInMode(m, env) ==
    IF m.state.high_precision_enabled
    THEN compute_reference_orbit_high_precision(m, env)
    ELSE compute_reference_orbit_double(m, env)

\* a faulty compute_reference_orbit without the early return: C28 must tell it
\* from compute_reference_orbit
ComputeAlways(m, env) ==
    ComputeInMode([m EXCEPT !.state = update_precision_mode(m.state, env.cast_ub)], env)

\* DeepZoomManager::compute_reference_orbit.  env.cast_ub: the outcome of the
\* undefined int conversion; env.create_ok: vmaCreateBuffer succeeds
compute_reference_orbit(m, env) ==
    IF ~m.state.use_perturbation THEN m
    ELSE ComputeInMode([m EXCEPT !.state = update_precision_mode(m.state, env.cast_ub)],
                       env)

\* DeepZoomManager::initialize
initialize(m, env) == compute_reference_orbit(m, env)

\* ------------------------------------------------------------------------
\* DeepZoomManager: zoom-path animation
\* ------------------------------------------------------------------------
\* ZoomKeyframe
Keyframe(cx, cy, zoom, duration) ==
    [center_x |-> cx, center_y |-> cy, zoom |-> zoom, duration |-> duration]

\* a faulty playZoomPath that keeps the cursor and the elapsed time: C9 must
\* tell it from playZoomPath
PlayKeepingCursor(m, path) ==
    [m EXCEPT !.zoom_path = path,
              !.state.zoom_animating = (path # <<>>),
              !.state.zoom_progress = Fin(0)]

\* DeepZoomManager::playZoomPath
playZoomPath(m, path) ==
    [m EXCEPT !.zoom_path = path,
              !.current_keyframe = 0,
              !.animation_time = Fin(0),
              !.state.zoom_animating = (path # <<>>),
              !.state.zoom_progress = Fin(0)]

\* DeepZoomManager::zoomTo
zoomTo(m, target_x, target_y, target_zoom, duration) ==
    LET start == Keyframe(m.state.center_x, m.state.center_y, m.state.zoom, Fin(0))
        end == Keyframe(target_x, target_y, target_zoom, duration)
    IN  playZoomPath(m, <<start, end>>)

\* std::log of a zoom, in the zoom's own unit: finite for a positive zoom,
\* -inf for 0, NaN for a negative zoom or NaN
LogOf(z) ==
    IF z.nan \/ z.sgn < 0 THEN [k |-> "nan", v |-> 0]
    ELSE IF z.sgn = 0 THEN [k |-> "ninf", v |-> 0]
    ELSE [k |-> "fin", v |-> z.lg]

\* num/den rounded to the nearest integer, den > 0
RoundDiv(num, den) == (2 * num + den) \div (2 * den)

\* std::exp(log_prev_z + t * (log_curr_z - log_prev_z)), IEEE 754 rules for the
\* infinities: -inf - (-inf), 0 * inf and -inf + inf are NaN, exp(-inf) is 0
LogInterpolate(prev_z, curr_z, t) ==
    LET lp == LogOf(prev_z)
        lc == LogOf(curr_z)
    IN  IF t.nan \/ lp.k = "nan" \/ lc.k = "nan" THEN ZNaN
        ELSE IF lp.k = "ninf" THEN ZNaN
        ELSE IF lc.k = "ninf" THEN (IF t.n > 0 THEN ZZero ELSE ZNaN)
        ELSE ZPos(lp.v + RoundDiv(t.n * (lc.v - lp.v), t.d))

\* DeepZoomManager::interpolate_to_keyframe (index is 0-based)
interpolate_to_keyframe(m, index, t) ==
    IF index <= 0 \/ index >= Len(m.zoom_path) THEN m
    ELSE LET prev == m.zoom_path[index]
             current == m.zoom_path[index + 1]
         IN  [m EXCEPT
                !.state.center_x =
                    DAdd(prev.center_x, DMul(t, DSub(current.center_x, prev.center_x))),
                !.state.center_y =
                    DAdd(prev.center_y, DMul(t, DSub(current.center_y, prev.center_y))),
                !.state.zoom = LogInterpolate(prev.zoom, current.zoom, t)]

RECURSIVE SumDurations(_, _)
\* the sum of the durations of the first k keyframes of path
SumDurations(path, k) ==
    IF k = 0 THEN Fin(0) ELSE DAdd(SumDurations(path, k - 1), path[k].duration)

\* a faulty progress that divides by the duration of the current keyframe:
\* C27 must tell it from PathProgress
ProgressOverSegment(m) ==
    LET elapsed_duration == DAdd(SumDurations(m.zoom_path, m.current_keyframe),
                                 m.animation_time)
    IN  DDiv(elapsed_duration, m.zoom_path[m.current_keyframe + 1].duration)

\* the "Update progress" block of update_animation
PathProgress(m) ==
    LET total_duration == SumDurations(m.zoom_path, Len(m.zoom_path))
        elapsed_duration == DAdd(SumDurations(m.zoom_path, m.current_keyframe),
                                 m.animation_time)
    IN  IF DGt(total_duration, Fin(0)) THEN DDiv(elapsed_duration, total_duration)
        ELSE Fin(1)

\* a faulty snap that carries the overshoot over: C10 must tell it from
\* MoveToKeyframe
MoveCarryingOvershoot(m, current_kf) ==
    [m EXCEPT !.state.center_x = current_kf.center_x,
              !.state.center_y = current_kf.center_y,
              !.state.zoom = current_kf.zoom,
              !.current_keyframe = m.current_keyframe + 1,
              !.animation_time = DSub(m.animation_time, current_kf.duration)]

\* the assignments of the branch of update_animation taken when the current
\* keyframe is reached
MoveToKeyframe(m, current_kf) ==
    [m EXCEPT !.state.center_x = current_kf.center_x,
              !.state.center_y = current_kf.center_y,
              !.state.zoom = current_kf.zoom,
              !.current_keyframe = m.current_keyframe + 1,
              !.animation_time = Fin(0)]

\* a faulty completion that stops the animation and leaves zoom_progress as it
\* is: C11 must tell it from FinishIfComplete
FinishKeepingProgress(m) ==
    IF m.threw THEN m
    ELSE IF m.current_keyframe >= Len(m.zoom_path)
    THEN [m EXCEPT !.state.zoom_animating = FALSE]
    ELSE m

\* the end of that branch: "Check if animation is complete"
FinishIfComplete(m) ==
    IF m.threw THEN m
    ELSE IF m.current_keyframe >= Len(m.zoom_path)
    THEN [m EXCEPT !.state.zoom_animating = FALSE,
                   !.state.zoom_progress = Fin(1)]
    ELSE m

\* a faulty snap that jumps to the end of the path at once: C26 must tell it
\* from SnapToKeyframe
SnapThroughPath(m, env) ==
    FinishIfComplete(
        compute_reference_orbit(
            [MoveToKeyframe(m, m.zoom_path[Len(m.zoom_path)])
                EXCEPT !.current_keyframe = Len(m.zoom_path)],
            env))

\* the branch of update_animation taken when the current keyframe is reached
SnapToKeyframe(m, env) ==
    FinishIfComplete(
        compute_reference_orbit(MoveToKeyframe(m, m.zoom_path[m.current_keyframe + 1]),
                                env))

\* the "Update progress" assignment
WithProgress(m) == [m EXCEPT !.state.zoom_progress = PathProgress(m)]

\* update_animation once _animation_time has advanced
AnimateAt(m, env) ==
    IF DGe(m.animation_time, m.zoom_path[m.current_keyframe + 1].duration)
    THEN SnapToKeyframe(m, env)
    ELSE WithProgress(
             interpolate_to_keyframe(
                 m, m.current_keyframe,
                 DDiv(m.animation_time, m.zoom_path[m.current_keyframe + 1].duration)))

\* a faulty update_animation that does not add delta_time to _animation_time:
\* C25 must tell it from update_animation
UpdateWithoutTime(m, delta_time, env) ==
    IF m.zoom_path = <<>> \/ m.current_keyframe >= Len(m.zoom_path)
    THEN [m EXCEPT !.state.zoom_animating = FALSE]
    ELSE AnimateAt(m, env)

\* DeepZoomManager::update_animation
update_animation(m, delta_time, env) ==
    IF m.zoom_path = <<>> \/ m.current_keyframe >= Len(m.zoom_path)
    THEN [m EXCEPT !.state.zoom_animating = FALSE]
    ELSE AnimateAt([m EXCEPT !.animation_time = DAdd(m.animation_time, delta_time)], env)

\* the zoom depth level update() derives from the signed zoom
DepthLevel(zoom_val) ==
    IF ZGtPow10(zoom_val, -6) THEN 0
    ELSE IF ZGtPow10(zoom_val, -10) THEN 1
    ELSE IF ZGtPow10(zoom_val, -14) THEN 2
    ELSE 3

\* the part of update() after the animation: zoom_depth_level, then
\* estimated_render_time =
\*   max_iterations * 0.001f * samples_per_pixel * (1 + zoom_depth_level * 0.5f)
UpdateDerived(m) ==
    IF m.threw THEN m
    ELSE [m EXCEPT
            !.state.zoom_depth_level = DepthLevel(m.state.zoom),
            !.state.estimated_render_time =
                Rat(m.state.max_iterations * m.state.samples_per_pixel
                        * (2 + DepthLevel(m.state.zoom)), 2000)]

\* a faulty update that advances the animation whether or not zoom_animating
\* is set: C17 must tell it from update
UpdateIgnoringCancel(m, delta_time, env) ==
    UpdateDerived(update_animation(m, delta_time, env))

\* DeepZoomManager::update
update(m, delta_time, env) ==
    UpdateDerived(IF m.state.zoom_animating THEN update_animation(m, delta_time, env)
                  ELSE m)

\* ------------------------------------------------------------------------
\* State
\* ------------------------------------------------------------------------
VARIABLES
    dzm,      \* the DeepZoomManager: state, reference_orbit, _zoom_path,
              \* _current_keyframe, _animation_time; threw: an exception left it
    eng,      \* the VulkanEngine: fractal_state, reference_orbit, current_fractal_type
    last_op   \* the operation that produced this state, with its arguments

vars == <<dzm, eng, last_op>>

\* DeepZoomState as DeepZoomManager's constructor leaves it.  The default
\* max_iterations is 1000; the model draws it within its bound instead.
NewDeepZoomState(max_iterations) ==
    [center_x |-> Rat(-1, 2), center_y |-> Fin(0), zoom |-> ZPos(301),
     max_iterations |-> max_iterations,
     use_perturbation |-> TRUE,
     reference_iterations |-> 0, deep_zoom_iterations |-> 0,
     samples_per_pixel |-> 1,
     zoom_animating |-> FALSE, zoom_progress |-> Fin(0),
     zoom_depth_level |-> 0, estimated_render_time |-> Fin(0),
     precision_mode |-> "Double", precision_bits |-> 64,
     high_precision_enabled |-> FALSE]

\* DeepZoomManager::DeepZoomManager
NewManager(max_iterations) ==
    [state |-> NewDeepZoomState(max_iterations),
     reference_orbit |-> NewOrbitBuffer,
     zoom_path |-> <<>>, current_keyframe |-> 0, animation_time |-> Fin(0),
     threw |-> FALSE]

\* ------------------------------------------------------------------------
\* Inputs
\* ------------------------------------------------------------------------
\* centre coordinates: small integers, 2 (outside the set), -1/2 (the default
\* centre) and NaN
CenterValues ==
    {Fin(v) : v \in (0 - CenterBound)..CenterBound} \cup {Fin(2), Rat(-1, 2), NaN}

\* zooms: 2.0, 1e-6, around and at 1e-14 and 1e-30, 1e-20, 1e-40, -1e-14, -1e-20, 0
ZoomValues ==
    {ZPos(301), Pow10(-6), ZPos(-13999), Pow10(-14), ZPos(-14001), Pow10(-20),
     ZPos(-29999), Pow10(-30), ZPos(-30001), Pow10(-40),
     ZNeg(-14000), ZNeg(-20000), ZZero}

\* max_iterations: negative, zero and up to the bound
IterationValues == (0 - 1)..MaxIter

\* the int an undefined float-to-int conversion yields: INT_MIN-like (x86),
\* 0, or a large positive value (saturating targets)
CastOutcomes == {0 - 1000000, 0, 1000000}

\* what the allocator and the conversion can do; the numeric core does not
\* touch the engine's buffer
Envs == [create_ok : BOOLEAN, eng_ok : {TRUE}, cast_ub : CastOutcomes]

\* ------------------------------------------------------------------------
\* VulkanEngine: the handlers that drive the manager and the engine's buffer
\* ------------------------------------------------------------------------
\* FractalState as constructed (the deep-zoom related fields).  The default
\* max_iterations is 256; the model draws it within its bound instead.
NewFractalState(max_iterations) ==
    [center_x |-> Rat(-1, 2), center_y |-> Fin(0), zoom |-> ZPos(477),
     max_iterations |-> max_iterations,
     use_perturbation |-> FALSE, reference_iterations |-> 0,
     needs_update |-> TRUE]

\* the engine before VulkanEngine::init has created the manager
NewEngine(max_iterations) ==
    [fractal_state |-> NewFractalState(max_iterations),
     reference_orbit |-> NewOrbitBuffer,
     current_fractal_type |-> "Mandelbrot",
     initialized |-> FALSE,
     crashed |-> FALSE]

\* z < 10^e for a signed zoom z; false for NaN
ZLtPow10(z, e) == ~z.nan /\ (z.sgn <= 0 \/ z.lg < 1000 * e)

\* the six 4-byte words of one ReferenceOrbitPoint in memory:
\* complex<double> (real, imag), int iteration, padding
PointWords(pt) ==
    <<[t |-> "f64lo", v |-> pt.value.re], [t |-> "f64hi", v |-> pt.value.re],
      [t |-> "f64lo", v |-> pt.value.im], [t |-> "f64hi", v |-> pt.value.im],
      [t |-> "i32", v |-> Fin(pt.iteration)], [t |-> "pad", v |-> Fin(0)]>>

RECURSIVE RawWords(_)
\* the memory of cpu_data.data()
RawWords(data) ==
    IF data = <<>> THEN <<>> ELSE PointWords(Head(data)) \o RawWords(Tail(data))

\* the manager's state as the engine assigns it from fractal_state
SyncManagerFromFractalState(m, e) ==
    [m EXCEPT !.state.center_x = e.fractal_state.center_x,
              !.state.center_y = e.fractal_state.center_y,
              !.state.zoom = e.fractal_state.zoom,
              !.state.max_iterations = e.fractal_state.max_iterations]

\* the engine does "cpu_data = manager's cpu_data; is_dirty = true;
\* upload_to_gpu(); reference_iterations = size" in several handlers
CopyAndUpload(m, e, eng_ok) ==
    LET copied == Logged(e.reference_orbit, "replace", "none",
                         [e.reference_orbit EXCEPT
                             !.cpu_data = m.reference_orbit.cpu_data,
                             !.is_dirty = TRUE])
    IN  [e EXCEPT !.reference_orbit = upload_to_gpu(copied, eng_ok)]

World(m, e) == [m |-> m, e |-> e]
\* an exception that leaves a handler is not caught: the process ends
Crash(m, e) == World(m, [e EXCEPT !.crashed = TRUE])

\* initialize_deep_zoom from "Copy to rendering buffer" on; created: the
\* unchecked vmaCreateBuffer succeeded.  is_dirty is not assigned.  The upload
\* is a memcpy of the first buffer_size bytes of the CPU records.
ReplaceAndRecreate(e, data, created) ==
    [e EXCEPT !.reference_orbit =
        Logged(e.reference_orbit, "replace", "none",
               [e.reference_orbit EXCEPT
                   !.cpu_data = data,
                   !.gpu_buffer = IF created
                                  THEN [buffer |-> TRUE,
                                        words |-> SubSeq(RawWords(data), 1, 2 * Len(data))]
                                  ELSE NullGpuBuffer]),
              !.fractal_state.reference_iterations =
                  IF created THEN Len(data) ELSE @,
              \* vmaMapMemory of a null allocation
              !.crashed = ~created]

\* initialize_deep_zoom once compute_reference_orbit has returned or thrown;
\* vmaCreateBuffer fails for a size of 0
AfterInitialCompute(computed, e, env) ==
    IF computed.threw THEN Crash(computed, e)
    ELSE World(computed,
               ReplaceAndRecreate(e, computed.reference_orbit.cpu_data,
                                  env.eng_ok /\ computed.reference_orbit.cpu_data # <<>>))

\* VulkanEngine::initialize_deep_zoom
initialize_deep_zoom(m, e, env) ==
    AfterInitialCompute(compute_reference_orbit(SyncManagerFromFractalState(m, e), env),
                        e, env)

\* a handler once its compute_reference_orbit has returned or thrown: the
\* copy into the engine's buffer and the upload
CopyIfComputed(computed, e, env) ==
    IF computed.threw THEN Crash(computed, e)
    ELSE World(computed, CopyAndUpload(computed, e, env.eng_ok))

\* the Deep_Zoom branch of on_fractal_type_changed that follows
\* initialize_deep_zoom, for should_use_perturbation = use
EnterDeepZoomWith(m, e, use, env) ==
    CopyIfComputed(
        compute_reference_orbit(
            [SyncManagerFromFractalState(m, e) EXCEPT !.state.use_perturbation = use],
            env),
        [e EXCEPT !.fractal_state.use_perturbation = use], env)

EnterDeepZoom(w, env) ==
    IF w.e.crashed THEN w
    ELSE EnterDeepZoomWith(w.m, w.e, ZLtPow10(w.e.fractal_state.zoom, -9), env)

\* on_fractal_type_changed from the first statement on
TypeChanged(m, e, env) ==
    IF e.current_fractal_type # "Deep_Zoom" THEN World(m, e)
    ELSE EnterDeepZoom(initialize_deep_zoom(m, e, env), env)

\* ui_manager->on_fractal_type_changed
on_fractal_type_changed(m, e, new_type, env) ==
    TypeChanged(m, [e EXCEPT !.current_fractal_type = new_type,
                             !.fractal_state.needs_update = TRUE], env)

\* the end of the recompute branch of prepare_deep_zoom_rendering
RecomputeDone(w) ==
    IF w.e.crashed THEN w
    ELSE World(w.m, [w.e EXCEPT !.fractal_state.reference_iterations =
                                    Len(w.e.reference_orbit.cpu_data),
                                !.fractal_state.needs_update = FALSE])

\* a faulty prepare that recomputes on every frame drawn with perturbation on:
\* C19 must tell it from PrepareWith
PrepareEveryFrame(m, e, env) ==
    IF e.fractal_state.use_perturbation
    THEN RecomputeDone(CopyIfComputed(compute_reference_orbit(m, env), e, env))
    ELSE World(m, e)

\* prepare_deep_zoom_rendering once state.max_iterations is assigned
PrepareWith(m, e, env) ==
    IF /\ e.fractal_state.use_perturbation
       /\ ~m.state.zoom_animating
       /\ (e.fractal_state.needs_update \/ e.reference_orbit.cpu_data = <<>>)
    THEN RecomputeDone(CopyIfComputed(compute_reference_orbit(m, env), e, env))
    ELSE World(m, e)

\* VulkanEngine::prepare_deep_zoom_rendering
prepare_deep_zoom_rendering(m, e, env) ==
    IF e.current_fractal_type # "Deep_Zoom" THEN World(m, e)
    ELSE PrepareWith([m EXCEPT !.state.max_iterations = e.fractal_state.max_iterations],
                     e, env)

\* draw_background: reference_iterations for the Deep_Zoom dispatch, clear_dirty
draw_background(w) ==
    IF w.e.crashed THEN w
    ELSE World(w.m,
               [w.e EXCEPT !.fractal_state.reference_iterations =
                               IF w.e.current_fractal_type = "Deep_Zoom"
                               THEN Len(w.e.reference_orbit.cpu_data)
                               ELSE @,
                           !.fractal_state.needs_update = FALSE])

\* VulkanEngine::draw as far as the deep zoom goes
draw(m, e, env) == draw_background(prepare_deep_zoom_rendering(m, e, env))

\* a faulty sync that leaves fractal_state.max_iterations alone: C30 must tell
\* it from SyncAnimated
SyncWithoutIterations(m, e) ==
    IF m.threw THEN Crash(m, e)
    ELSE IF ~m.state.zoom_animating THEN World(m, e)
    ELSE World(m, [e EXCEPT !.fractal_state.center_x = m.state.center_x,
                            !.fractal_state.center_y = m.state.center_y,
                            !.fractal_state.zoom = m.state.zoom])

\* the sync of the animated state into fractal_state in VulkanEngine::run
SyncAnimated(m, e) ==
    IF m.threw THEN Crash(m, e)
    ELSE IF ~m.state.zoom_animating THEN World(m, e)
    ELSE World(m, [e EXCEPT !.fractal_state.center_x = m.state.center_x,
                            !.fractal_state.center_y = m.state.center_y,
                            !.fractal_state.zoom = m.state.zoom,
                            !.fractal_state.max_iterations = m.state.reference_iterations])

\* the head of one iteration of VulkanEngine::run: update, then the sync
run_update(m, e, delta_time, env) ==
    IF e.current_fractal_type # "Deep_Zoom" THEN World(m, e)
    ELSE SyncAnimated(update(m, delta_time, env), e)

\* the end of on_deep_zoom_manual: "Sync back to fractal_state"
ManualSync(m, e, x, y, zoom) ==
    IF m.threw THEN Crash(m, e)
    ELSE World(m, [e EXCEPT !.fractal_state.center_x = x,
                            !.fractal_state.center_y = y,
                            !.fractal_state.zoom = zoom,
                            !.fractal_state.needs_update = TRUE])

\* on_deep_zoom_manual for needs_perturbation = needs
ManualWith(m, e, x, y, zoom, needs, env) ==
    ManualSync(
        IF needs
        THEN compute_reference_orbit(
                 [m EXCEPT !.state.center_x = x, !.state.center_y = y,
                           !.state.zoom = zoom, !.state.use_perturbation = TRUE,
                           !.state.max_iterations = e.fractal_state.max_iterations],
                 env)
        ELSE [m EXCEPT !.state.center_x = x, !.state.center_y = y,
                       !.state.zoom = zoom, !.state.use_perturbation = FALSE],
        [e EXCEPT !.fractal_state.use_perturbation = needs], x, y, zoom)

\* ui_manager->on_deep_zoom_manual (the duration is not used)
on_deep_zoom_manual(m, e, x, y, zoom, env) ==
    ManualWith(m, e, x, y, zoom, ZLtPow10(zoom, -9), env)

\* ------------------------------------------------------------------------
\* The program: the engine's handlers and frame steps, and the manager's
\* public animation interface
\* ------------------------------------------------------------------------
\* (x, y, zoom) the user enters in the manual deep-zoom fields
ManualTargets ==
    {<<Rat(-1, 2), Fin(0), ZPos(301)>>, <<Fin(2), Fin(0), Pow10(-10)>>,
     <<Fin(0), Fin(1), Pow10(-20)>>}
\* (x, y, zoom) a caller passes to zoomTo
ZoomToTargets ==
    {<<Fin(2), Fin(0), Pow10(-10)>>, <<Rat(-1, 2), Fin(0), Pow10(-20)>>}
\* what the allocator and the conversions can do in the program: no zoom it
\* reaches is 0 or NaN, so the undefined conversion does not occur
RunEnvs == [create_ok : BOOLEAN, eng_ok : BOOLEAN, cast_ub : {0}]
\* the "Max Iterations" slider, scaled to the bound of the model
SliderValues == {MaxIter - 1, MaxIter}
\* frame times and keyframe durations, in seconds
DeltaTimes == {Fin(0), Fin(1), Fin(3)}
\* the paths passed to playZoomPath: none, one keyframe, two, three
ZoomPaths ==
    {<<>>,
     <<Keyframe(Fin(2), Fin(0), Pow10(-10), Fin(2))>>,
     <<Keyframe(Rat(-1, 2), Fin(0), ZPos(301), Fin(0)),
       Keyframe(Fin(2), Fin(0), Pow10(-20), Fin(2))>>,
     <<Keyframe(Fin(0), Fin(0), ZPos(301), Fin(1)),
       Keyframe(Fin(2), Fin(0), Pow10(-10), Fin(0)),
       Keyframe(Rat(-1, 2), Fin(0), Pow10(-20), Fin(2))>>}
\* the duration passed to zoomTo
ZoomToDuration == Fin(1)

\* the calls of DeepZoomManager::update and of the interface that starts an
\* animation: last_op keeps the manager they started from
ManagerCalls == {"update", "run_update", "playZoomPath", "zoomTo"}
\* what last_op keeps for the other calls
NoManager == [state |-> "none"]

Init ==
    /\ dzm = NewManager(MaxIter)
    /\ eng = NewEngine(MaxIter)
    /\ last_op = [name |-> "construct", count |-> 0, delta_time |-> Fin(0),
                  pre |-> NoManager, after_empty_play |-> "no",
                  recompute_due |-> FALSE, after_recompute |-> FALSE]

\* the handlers run on the one thread of VulkanEngine::run, once init is done
\* and until an exception or a fault ends the process
Running == eng.initialized /\ ~eng.crashed /\ ~dzm.threw

\* a call into the manager has returned, or thrown
Returned(m, e) == World(m, [e EXCEPT !.crashed = m.threw])

\* the state a handler starts from: the histories of both buffers start anew
Start ==
    World([dzm EXCEPT !.reference_orbit = ClearLog(@)],
          [eng EXCEPT !.reference_orbit = ClearLog(@)])

\* the engine's buffer was given a new orbit during the last handler
Recomputed(e) == \E i \in 1..Len(e.reference_orbit.log) : e.reference_orbit.log[i].op = "replace"

\* a frame drawn from (m, e) is in Deep_Zoom mode with perturbation on, no zoom
\* animation running, and fractal_state.needs_update set or the engine's orbit
\* empty
RecomputeDue(m, e) ==
    /\ e.current_fractal_type = "Deep_Zoom"
    /\ e.fractal_state.use_perturbation
    /\ ~m.state.zoom_animating
    /\ (e.fractal_state.needs_update \/ e.reference_orbit.cpu_data = <<>>)

\* the handler name, called with delta_time where it takes one, produced w.
\* For a frame, last_op also keeps whether a recompute was due when it
\* started, and whether the frame before it recomputed.
\* last_op counts the calls and keeps whether the state the handler started
\* from came from playZoomPath with an empty path, and if so whether that call
\* found the manager animating or idle
Step(name, delta_time, w) ==
    /\ last_op.count < MaxOps
    /\ dzm' = w.m
    /\ eng' = w.e
    /\ last_op' = [name |-> name, count |-> last_op.count + 1,
                   delta_time |-> delta_time,
                   pre |-> IF name \in ManagerCalls THEN Start.m ELSE NoManager,
                   after_empty_play |->
                       IF last_op.name = "playZoomPath" /\ dzm.zoom_path = <<>>
                       THEN (IF last_op.pre.state.zoom_animating THEN "animating"
                             ELSE "idle")
                       ELSE "no",
                   recompute_due |-> name = "draw" /\ RecomputeDue(dzm, eng),
                   after_recompute |-> last_op.name = "draw" /\ Recomputed(eng)]

\* VulkanEngine::init: the manager is created and initialize() is called
EngineInit ==
    /\ ~eng.initialized
    /\ \E env \in RunEnvs :
          Step("initialize", Fin(0),
               Returned(initialize(Start.m, env), [Start.e EXCEPT !.initialized = TRUE]))

\* the "Max Iterations" slider
SetMaxIterations ==
    /\ Running
    /\ \E n \in SliderValues :
          Step("set_max_iterations", Fin(0),
               World(Start.m, [Start.e EXCEPT !.fractal_state.max_iterations = n,
                                              !.fractal_state.needs_update = TRUE]))

FractalTypeChanged ==
    /\ Running
    /\ \E new_type \in {"Mandelbrot", "Deep_Zoom"}, env \in RunEnvs :
          Step("on_fractal_type_changed", Fin(0),
               on_fractal_type_changed(Start.m, Start.e, new_type, env))

DeepZoomManual ==
    /\ Running
    /\ \E p \in ManualTargets, env \in RunEnvs :
          Step("on_deep_zoom_manual", Fin(0),
               on_deep_zoom_manual(Start.m, Start.e, p[1], p[2], p[3], env))

\* ui_manager->on_deep_zoom_use_perturbation
DeepZoomUsePerturbation ==
    /\ Running
    /\ \E enabled \in BOOLEAN :
          Step("on_deep_zoom_use_perturbation", Fin(0),
               World([Start.m EXCEPT !.state.use_perturbation = enabled], Start.e))

RunUpdate ==
    /\ Running
    /\ \E delta_time \in DeltaTimes, env \in RunEnvs :
          Step("run_update", delta_time, run_update(Start.m, Start.e, delta_time, env))

Draw ==
    /\ Running
    /\ \E env \in RunEnvs : Step("draw", Fin(0), draw(Start.m, Start.e, env))

\* the manager's public interface, called by a client of DeepZoomManager
PlayZoomPath ==
    /\ Running
    /\ \E path \in ZoomPaths :
          Step("playZoomPath", Fin(0), World(playZoomPath(Start.m, path), Start.e))

ZoomTo ==
    /\ Running
    /\ \E p \in ZoomToTargets :
          Step("zoomTo", Fin(0),
               World(zoomTo(Start.m, p[1], p[2], p[3], ZoomToDuration), Start.e))

Update ==
    /\ Running
    /\ \E delta_time \in DeltaTimes, env \in RunEnvs :
          Step("update", delta_time, Returned(update(Start.m, delta_time, env), Start.e))

Next ==
    \/ EngineInit
    \/ SetMaxIterations
    \/ FractalTypeChanged
    \/ DeepZoomManual
    \/ DeepZoomUsePerturbation
    \/ RunUpdate
    \/ Draw
    \/ PlayZoomPath
    \/ ZoomTo
    \/ Update

Spec == Init /\ [][Next]_vars

\* ------------------------------------------------------------------------
\* The frame loop in Deep_Zoom mode: the same handlers, started from the state
\* the program is in once init has run, the user has selected Deep_Zoom and
\* has jumped to coordinates deep enough for perturbation
\* ------------------------------------------------------------------------
\* the manual targets with zoom < 1e-9
DeepTargets == {p \in ManualTargets : ZLtPow10(p[3], -9)}

\* VulkanEngine::init as far as the manager goes
AfterEngineInit(env) ==
    Returned(initialize(NewManager(MaxIter), env),
             [NewEngine(MaxIter) EXCEPT !.initialized = TRUE])

\* the user selects Deep_Zoom
SelectDeepZoom(w, env) == on_fractal_type_changed(w.m, w.e, "Deep_Zoom", env)

\* the user jumps to p
JumpTo(w, p, env) == on_deep_zoom_manual(w.m, w.e, p[1], p[2], p[3], env)

InitFrame ==
    /\ \E p \in DeepTargets, env \in RunEnvs :
          /\ dzm = JumpTo(SelectDeepZoom(AfterEngineInit(env), env), p, env).m
          /\ eng = JumpTo(SelectDeepZoom(AfterEngineInit(env), env), p, env).e
    /\ last_op = [name |-> "on_deep_zoom_manual", count |-> MaxOps - MaxFrameOps,
                  delta_time |-> Fin(0),
                  pre |-> NoManager, after_empty_play |-> "no",
                  recompute_due |-> FALSE, after_recompute |-> FALSE]

\* the frame loop (the update at the head of an iteration, the frame drawn),
\* the UI handlers that do not leave Deep_Zoom mode, and the start of an
\* animation
NextFrame ==
    \/ SetMaxIterations
    \/ DeepZoomManual
    \/ DeepZoomUsePerturbation
    \/ RunUpdate
    \/ Draw
    \/ PlayZoomPath
    \/ ZoomTo

SpecFrame == InitFrame /\ [][NextFrame]_vars

\* ------------------------------------------------------------------------
\* The numeric core alone: the manager's public state holds drawn inputs and
\* compute_reference_orbit / update_precision_mode are applied to it
\* ------------------------------------------------------------------------
InitOrbit ==
    /\ \E cx \in CenterValues, cy \in CenterValues, z \in ZoomValues,
          n \in IterationValues, p \in BOOLEAN :
          dzm = [NewManager(n) EXCEPT !.state.center_x = cx,
                                      !.state.center_y = cy,
                                      !.state.zoom = z,
                                      !.state.use_perturbation = p]
    /\ eng = NewEngine(MaxIter)
    /\ last_op = [name |-> "construct"]

OrbitCompute ==
    /\ ~dzm.threw
    /\ \E env \in Envs :
          dzm' = compute_reference_orbit([dzm EXCEPT !.reference_orbit = ClearLog(@)], env)
    /\ last_op' = [name |-> "compute_reference_orbit"]
    /\ UNCHANGED eng

OrbitPrecision ==
    /\ ~dzm.threw
    /\ \E env \in Envs :
          dzm' = [dzm EXCEPT !.state = update_precision_mode(dzm.state, env.cast_ub),
                             !.reference_orbit = ClearLog(@)]
    /\ last_op' = [name |-> "update_precision_mode"]
    /\ UNCHANGED eng

\* reference_orbit.upload_to_gpu called by a client of the buffer
OrbitUpload ==
    /\ ~dzm.threw
    /\ \E env \in Envs :
          dzm' = [dzm EXCEPT !.reference_orbit =
                                 upload_to_gpu(ClearLog(@), env.create_ok)]
    /\ last_op' = [name |-> "upload_to_gpu"]
    /\ UNCHANGED eng

NextOrbit == OrbitCompute \/ OrbitPrecision \/ OrbitUpload

SpecOrbit == InitOrbit /\ [][NextOrbit]_vars

\* ------------------------------------------------------------------------
\* Claims about the numeric core (checked under SpecOrbit)
\* ------------------------------------------------------------------------
\* compute_reference_orbit has run to its end with perturbation enabled
OrbitComputed ==
    /\ last_op.name = "compute_reference_orbit"
    /\ dzm.state.use_perturbation
    /\ ~dzm.threw

\* update_precision_mode has run (alone, or as the first step of a computation)
PrecisionUpdated ==
    \/ last_op.name = "update_precision_mode"
    \/ last_op.name = "compute_reference_orbit" /\ dzm.state.use_perturbation

RECURSIVE EscapeIteration(_, _, _, _, _)
\* the first index i < n at which the iterate z_i of z -> z^2 + c (z_0 = 0)
\* passes the escape test of the path (|z|^2 > 4; on the double path also the
\* divergence guard, a NaN magnitude), or n when there is none
EscapeIteration(z, i, c, n, hp) ==
    IF i >= n THEN n
    ELSE IF DGt(NormSq(z), Fin(4)) \/ (~hp /\ NormSq(z).nan) THEN i
    ELSE EscapeIteration(CAdd(CMul(z, z), c), i + 1, c, n, hp)

StateEscapeIteration ==
    EscapeIteration(CZero, 0, Cx(dzm.state.center_x, dzm.state.center_y),
                    dzm.state.max_iterations, dzm.state.high_precision_enabled)

OrbitData == dzm.reference_orbit.cpu_data

LastEscaped == DGt(NormSq(OrbitData[Len(OrbitData)].value), Fin(4))
\* the last stored value has a NaN magnitude
LastIsNaN == NormSq(OrbitData[Len(OrbitData)].value).nan

C3_DegenerateIterations ==
    (/\ last_op.name = "compute_reference_orbit"
     /\ dzm.state.use_perturbation
     /\ dzm.state.max_iterations <= 0)
        => /\ ~dzm.threw
           /\ OrbitData = <<>>
           /\ dzm.state.reference_iterations = 0

ZoomNonZero == ~dzm.state.zoom.nan /\ dzm.state.zoom.sgn # 0

\* C4: update_precision_mode derives the mode from |zoom| alone: Double with
\* 64 bits when |zoom| >= 1e-14, Quad when 1e-30 <= |zoom| < 1e-14, Arbitrary
\* when |zoom| < 1e-30, boundaries included.
C4_ModeByZoom ==
    (PrecisionUpdated /\ ZoomNonZero) =>
        LET lg == dzm.state.zoom.lg
        IN  /\ lg >= -14000 =>
                dzm.state.precision_mode = "Double" /\ dzm.state.precision_bits = 64
            /\ (lg >= -30000 /\ lg < -14000) => dzm.state.precision_mode = "Quad"
            /\ lg < -30000 => dzm.state.precision_mode = "Arbitrary"

\* C5: after update_precision_mode with a nonzero zoom, a Quad or Arbitrary
\* mode carries between 128 and 4096 bits.
C5_NonDoubleBits ==
    (PrecisionUpdated /\ ZoomNonZero /\ dzm.state.precision_mode # "Double") =>
        (dzm.state.precision_bits >= 128 /\ dzm.state.precision_bits <= 4096)

\* C6: a zoom of exactly 0 is treated as Double with 64 bits, and the
\* high-precision path is not taken.
C6_ZeroZoomIsDouble ==
    (PrecisionUpdated /\ ~dzm.state.zoom.nan /\ dzm.state.zoom.sgn = 0) =>
        /\ dzm.state.precision_mode = "Double"
        /\ dzm.state.precision_bits = 64
        /\ ~dzm.state.high_precision_enabled

\* the entries of the history of buf
Events(buf) == {buf.log[i] : i \in 1..Len(buf.log)}
UploadEvents(buf) == {ev \in Events(buf) : ev.op = "upload_to_gpu"}

\* C8: upload_to_gpu clears is_dirty only after a successful upload: when the
\* creation of the GPU buffer fails, or cpu_data is empty, it returns with
\* is_dirty still true; when it returns with is_dirty false, the GPU buffer
\* holds cpu_data.size() points, the float pairs of cpu_data.
C8_UploadClearsOnSuccess ==
    /\ \A ev \in UploadEvents(dzm.reference_orbit) :
          /\ (ev.result = "failed" \/ ev.size = 0) => ev.is_dirty
          /\ (ev.was_dirty /\ ~ev.is_dirty) => ev.result = "uploaded"
          /\ ~ev.is_dirty => ev.points = ev.size
    /\ (UploadEvents(dzm.reference_orbit) # {} /\ ~dzm.reference_orbit.is_dirty) =>
          /\ dzm.reference_orbit.gpu_buffer.buffer
          /\ dzm.reference_orbit.gpu_buffer.words = Vec2Words(dzm.reference_orbit.cpu_data)

\* an upload whose buffer creation failed, on a buffer that held an earlier upload
C8_Witness ==
    /\ \E ev \in UploadEvents(dzm.reference_orbit) : ev.result = "failed" /\ ev.size >= 2
    /\ dzm.reference_orbit.is_dirty
    /\ ~dzm.reference_orbit.gpu_buffer.buffer

\* the centre is (2, 2)
CenterTwoTwo == dzm.state.center_x = Fin(2) /\ dzm.state.center_y = Fin(2)

\* C20: for the centre (2, 2) and max_iterations >= 2 the orbit escapes within
\* 2 iterations on the double path and on the high-precision path at any
\* bit-width: it has at most 2 elements and its last element is the escaping
\* iterate (2, 2).
C20_KnownEscapingPoint ==
    (OrbitComputed /\ CenterTwoTwo /\ dzm.state.max_iterations >= 2) =>
        /\ Len(OrbitData) >= 1
        /\ Len(OrbitData) <= 2
        /\ LastEscaped
        /\ OrbitData[Len(OrbitData)].value = Cx(Fin(2), Fin(2))
        /\ dzm.state.reference_iterations = Len(OrbitData)

\* the orbit of (2, 2) computed on the high-precision path in Arbitrary mode
\* with the largest max_iterations
C20_Witness ==
    /\ OrbitComputed
    /\ CenterTwoTwo
    /\ dzm.state.max_iterations = MaxIter
    /\ dzm.state.high_precision_enabled
    /\ dzm.state.precision_mode = "Arbitrary"
    /\ Len(OrbitData) = 2

\* ------------------------------------------------------------------------
\* Claims about the program (checked under Spec)
\* ------------------------------------------------------------------------
\* C7: for the manager's buffer and the engine's, every operation that
\* replaces or resizes cpu_data leaves is_dirty true, and is_dirty goes from
\* true to false only inside upload_to_gpu.
C7_DirtyDiscipline ==
    \A buf \in {dzm.reference_orbit, eng.reference_orbit} :
        \A ev \in Events(buf) :
            /\ ev.op \in {"resize", "replace"} => ev.is_dirty
            /\ (ev.was_dirty /\ ~ev.is_dirty) => ev.op = "upload_to_gpu"

\* DeepZoomManager::update has run in the last step
Updated ==
    \/ last_op.name = "update"
    \/ last_op.name = "run_update" /\ eng.current_fractal_type = "Deep_Zoom"

\* C9: playZoomPath(path), called Idle or Animating, sets the cursor to 0, the
\* elapsed time to 0 and zoom_animating to (path is non-empty); with an empty
\* path the manager is Idle with zoom_progress 0, and the update(dt) that
\* follows changes neither the centre nor the zoom.
C9_PlayZoomPath ==
    /\ last_op.name = "playZoomPath" =>
          /\ dzm.current_keyframe = 0
          /\ dzm.animation_time = Fin(0)
          /\ dzm.state.zoom_animating = (dzm.zoom_path # <<>>)
          /\ dzm.zoom_path = <<>> =>
                (~dzm.state.zoom_animating /\ dzm.state.zoom_progress = Fin(0))
    /\ (Updated /\ last_op.after_empty_play # "no") =>
          /\ dzm.state.center_x = last_op.pre.state.center_x
          /\ dzm.state.center_y = last_op.pre.state.center_y
          /\ dzm.state.zoom = last_op.pre.state.zoom
          /\ ~dzm.state.zoom_animating

\* an update with a positive dt that follows playZoomPath with an empty path,
\* which had stopped a running animation
C9_Witness ==
    /\ last_op.name = "update"
    /\ last_op.after_empty_play = "animating"
    /\ DGt(last_op.delta_time, Fin(0))
    /\ dzm.zoom_path = <<>>

\* the keyframe the manager was heading to when the last update started
PreKeyframe == last_op.pre.zoom_path[last_op.pre.current_keyframe + 1]

\* the last step was an update(dt) while animating, after which the elapsed
\* time was >= the current keyframe's duration
Snapped ==
    /\ Updated
    /\ last_op.pre.state.zoom_animating
    /\ last_op.pre.current_keyframe < Len(last_op.pre.zoom_path)
    /\ DGe(DAdd(last_op.pre.animation_time, last_op.delta_time), PreKeyframe.duration)

\* the state is at the keyframe, the cursor one further, the elapsed time 0
ArrivedAtKeyframe ==
    /\ dzm.state.center_x = PreKeyframe.center_x
    /\ dzm.state.center_y = PreKeyframe.center_y
    /\ dzm.state.zoom = PreKeyframe.zoom
    /\ dzm.current_keyframe = last_op.pre.current_keyframe + 1
    /\ dzm.animation_time = Fin(0)

\* the orbit compute_reference_orbit produces for the state's centre,
\* max_iterations and zoom
OrbitOfState ==
    compute_reference_orbit(
        [dzm EXCEPT !.state.use_perturbation = TRUE],
        [create_ok |-> TRUE, eng_ok |-> TRUE, cast_ub |-> 0]).reference_orbit.cpu_data

\* the buffer holds the orbit of the state's centre, its length published
OrbitRecomputed ==
    /\ OrbitData = OrbitOfState
    /\ dzm.state.reference_iterations = Len(OrbitData)

\* C10 as claimed: an update(dt) while animating that brings the elapsed time
\* to the current keyframe's duration or beyond sets centre and zoom to the
\* keyframe's values, advances the cursor by one, resets the elapsed time to 0,
\* and then recomputes the reference orbit for the keyframe's centre.
C10_Original == Snapped => (ArrivedAtKeyframe /\ OrbitRecomputed)

\* C10 as amended: ... and then calls compute_reference_orbit, which recomputes
\* the reference orbit for the keyframe's centre when use_perturbation is set,
\* and leaves the buffer as it was when it is not.
C10_SnapToKeyframe ==
    Snapped =>
        /\ ArrivedAtKeyframe
        /\ dzm.state.use_perturbation => OrbitRecomputed
        /\ ~dzm.state.use_perturbation =>
              /\ OrbitData = last_op.pre.reference_orbit.cpu_data
              /\ dzm.reference_orbit = last_op.pre.reference_orbit

\* a snap with an overshoot, after which the orbit is another one
C10_Witness ==
    /\ Snapped
    /\ DGt(DAdd(last_op.pre.animation_time, last_op.delta_time), PreKeyframe.duration)
    /\ dzm.state.use_perturbation
    /\ OrbitData # last_op.pre.reference_orbit.cpu_data
    /\ dzm.state.zoom_animating
\* ------------------------------------------------------------------------
\* The zoom-path animator alone: a client of DeepZoomManager plays paths, calls
\* update(dt) and cancels by clearing state.zoom_animating
\* ------------------------------------------------------------------------
\* state.max_iterations during the animation
PathIterationValues == {2, 3}
\* frame times, in seconds
PathDeltaTimes == {Fin(0), Fin(1), Rat(5, 2)}
\* the two-keyframe path of the end-to-end scenario
ScenarioPath ==
    <<Keyframe(Rat(-1, 2), Fin(0), ZPos(301), Fin(0)),
      Keyframe(Rat(-3, 4), Rat(1, 10), Pow10(-6), Fin(5))>>
\* the paths played: none; the scenario; two keyframes of duration 0; three
\* keyframes with a zero-duration one in the middle; a zoom that is 0 or
\* negative at the first or the second endpoint of a segment
AnimatedPaths ==
    {<<>>,
     ScenarioPath,
     <<Keyframe(Fin(0), Fin(0), ZPos(301), Fin(0)),
       Keyframe(Fin(2), Fin(0), Pow10(-10), Fin(0))>>,
     <<Keyframe(Fin(0), Fin(0), ZPos(301), Fin(1)),
       Keyframe(Fin(2), Fin(0), Pow10(-10), Fin(0)),
       Keyframe(Rat(-1, 2), Fin(0), Pow10(-20), Fin(2))>>,
     <<Keyframe(Fin(0), Fin(0), ZZero, Fin(0)),
       Keyframe(Fin(2), Fin(0), Pow10(-10), Fin(2))>>,
     <<Keyframe(Fin(0), Fin(0), ZPos(301), Fin(0)),
       Keyframe(Fin(2), Fin(0), ZZero, Fin(2))>>,
     <<Keyframe(Fin(0), Fin(0), ZPos(301), Fin(0)),
       Keyframe(Fin(2), Fin(0), ZNeg(-10000), Fin(2))>>}

\* the manager as VulkanEngine::init leaves it: constructed, initialize() called
InitPath ==
    /\ \E n \in PathIterationValues, env \in Envs :
          dzm = initialize(NewManager(n), env)
    /\ eng = NewEngine(MaxIter)
    /\ last_op = [name |-> "initialize", count |-> 0, delta_time |-> Fin(0),
                  pre |-> NoManager, after |-> "construct"]

\* the call name, with delta_time where it takes one, left the manager as m;
\* last_op counts the calls and keeps the manager the call started from and
\* the name of the call before it
PathStep(name, delta_time, m) ==
    /\ last_op.count < MaxOps
    /\ dzm' = m
    /\ UNCHANGED eng
    /\ last_op' = [name |-> name, count |-> last_op.count + 1,
                   delta_time |-> delta_time,
                   pre |-> Start.m, after |-> last_op.name]

PathPlay ==
    /\ ~dzm.threw
    /\ \E path \in AnimatedPaths :
          PathStep("playZoomPath", Fin(0), playZoomPath(Start.m, path))

PathUpdate ==
    /\ ~dzm.threw
    /\ \E delta_time \in PathDeltaTimes, env \in Envs :
          PathStep("update", delta_time, update(Start.m, delta_time, env))

\* cancellation: the client clears state.zoom_animating of a running animation
PathCancel ==
    /\ dzm.state.zoom_animating
    /\ PathStep("cancel", Fin(0), [Start.m EXCEPT !.state.zoom_animating = FALSE])

NextPath ==
    \/ PathPlay
    \/ PathUpdate
    \/ PathCancel

SpecPath == InitPath /\ [][NextPath]_vars

\* ------------------------------------------------------------------------
\* Claims about the zoom-path animator (checked under SpecPath)
\* ------------------------------------------------------------------------
\* the last update, made while animating, moved the cursor past the last
\* keyframe of the path
PassedLastKeyframe ==
    /\ Updated
    /\ last_op.pre.state.zoom_animating
    /\ last_op.pre.current_keyframe < Len(last_op.pre.zoom_path)
    /\ dzm.current_keyframe >= Len(dzm.zoom_path)

\* the last update cleared zoom_animating
StoppedByUpdate ==
    /\ Updated
    /\ last_op.pre.state.zoom_animating
    /\ ~dzm.state.zoom_animating

\* C11: an update that moves the cursor past the last keyframe leaves the
\* manager Idle with zoom_progress = 1.0, and update never clears
\* zoom_animating on a non-empty path with zoom_progress other than 1.0.
C11_IdleAtEndOfPath ==
    /\ PassedLastKeyframe =>
          (~dzm.state.zoom_animating /\ dzm.state.zoom_progress = Fin(1))
    /\ (StoppedByUpdate /\ dzm.zoom_path # <<>>) => dzm.state.zoom_progress = Fin(1)

\* the third keyframe of a path is reached by an update with a positive dt,
\* with zoom_progress below 1.0 until then
C11_Witness ==
    /\ PassedLastKeyframe
    /\ Len(dzm.zoom_path) = 3
    /\ DGt(last_op.delta_time, Fin(0))
    /\ last_op.pre.state.zoom_progress # Fin(1)
    /\ ~dzm.state.zoom_animating

\* (the durations of the keyframes already completed + the elapsed time within
\* the segment) / the total duration of the path, 1.0 for a total of 0
ExpectedProgress ==
    IF SumDurations(dzm.zoom_path, Len(dzm.zoom_path)) = Fin(0) THEN Fin(1)
    ELSE DDiv(DAdd(SumDurations(dzm.zoom_path, dzm.current_keyframe), dzm.animation_time),
              SumDurations(dzm.zoom_path, Len(dzm.zoom_path)))

\* C12: after every update(dt) made while a path is animating, whether it
\* snapped to a keyframe or interpolated mid-segment, zoom_progress is the
\* ratio of completed durations plus elapsed time to the total duration.
C12_ProgressIsRatio ==
    (Updated /\ last_op.pre.state.zoom_animating) =>
        dzm.state.zoom_progress = ExpectedProgress

\* C13: on a path whose keyframes all have duration 0, zoom_progress is 1.0
\* after any update made while the path is playing, keyframes remaining or not.
C13_ZeroDurationProgress ==
    (/\ Updated
     /\ last_op.pre.state.zoom_animating
     /\ SumDurations(dzm.zoom_path, Len(dzm.zoom_path)) = Fin(0)) =>
        dzm.state.zoom_progress = Fin(1)

\* the last update, made while animating, stayed within the segment that
\* leads to keyframe _current_keyframe >= 1 and interpolated
Interpolated ==
    /\ Updated
    /\ last_op.pre.state.zoom_animating
    /\ last_op.pre.current_keyframe >= 1
    /\ last_op.pre.current_keyframe < Len(last_op.pre.zoom_path)
    /\ ~DGe(DAdd(last_op.pre.animation_time, last_op.delta_time), PreKeyframe.duration)

\* the keyframe the segment of the last update started from
PrevKeyframe == last_op.pre.zoom_path[last_op.pre.current_keyframe]

\* a zoom that is zero or negative
NonPositive(z) == ~z.nan /\ z.sgn <= 0

\* C14: a mid-segment interpolation between two keyframes one of which has a
\* zero or negative zoom leaves a state.zoom that is not NaN.
C14_NoNaNFromNonPositiveZoom ==
    (Interpolated /\ (NonPositive(PrevKeyframe.zoom) \/ NonPositive(PreKeyframe.zoom))) =>
        ~dzm.state.zoom.nan

\* C15: update(0.0) changes none of center_x, center_y, zoom, the cursor, the
\* elapsed time, zoom_animating, zoom_progress and the reference orbit.
C15_UpdateZeroIdempotent ==
    (Updated /\ last_op.delta_time = Fin(0)) =>
        /\ dzm.state.center_x = last_op.pre.state.center_x
        /\ dzm.state.center_y = last_op.pre.state.center_y
        /\ dzm.state.zoom = last_op.pre.state.zoom
        /\ dzm.current_keyframe = last_op.pre.current_keyframe
        /\ dzm.animation_time = last_op.pre.animation_time
        /\ dzm.state.zoom_animating = last_op.pre.state.zoom_animating
        /\ dzm.state.zoom_progress = last_op.pre.state.zoom_progress
        /\ OrbitData = last_op.pre.reference_orbit.cpu_data

\* update(2.5) is the one call that follows playZoomPath of the scenario path
ScenarioUpdate ==
    /\ last_op.name = "update"
    /\ last_op.after = "playZoomPath"
    /\ dzm.zoom_path = ScenarioPath
    /\ last_op.delta_time = Rat(5, 2)

\* C16: after playZoomPath of the scenario path, one call update(2.5) leaves
\* zoom_progress within 0.01 of 0.5 and the zoom at sqrt(2.0 * 1e-6) =
\* 10^-2.8495, to the thousandth of a decade.
C16_EndToEndScenario ==
    ScenarioUpdate =>
        /\ DGe(dzm.state.zoom_progress, Rat(49, 100))
        /\ DGe(Rat(51, 100), dzm.state.zoom_progress)
        /\ dzm.state.zoom.sgn = 1
        /\ dzm.state.zoom.lg \in (0 - 2850)..(0 - 2848)

\* the index invariants of the orbit: reference_iterations elements, at most
\* max_iterations, the element at index i carrying iteration i
OrbitWellFormed ==
    /\ Len(OrbitData) = dzm.state.reference_iterations
    /\ Len(OrbitData) <= dzm.state.max_iterations
    /\ \A i \in 1..Len(OrbitData) : OrbitData[i].iteration = i - 1

\* C17: once zoom_animating is false, every update(dt) leaves center_x,
\* center_y, zoom, the cursor, the elapsed time, reference_orbit.cpu_data and
\* reference_iterations unchanged, and the orbit keeps its index invariants.
C17_CancelLeavesOrbit ==
    (Updated /\ ~last_op.pre.state.zoom_animating) =>
        /\ dzm.state.center_x = last_op.pre.state.center_x
        /\ dzm.state.center_y = last_op.pre.state.center_y
        /\ dzm.state.zoom = last_op.pre.state.zoom
        /\ dzm.current_keyframe = last_op.pre.current_keyframe
        /\ dzm.animation_time = last_op.pre.animation_time
        /\ OrbitData = last_op.pre.reference_orbit.cpu_data
        /\ dzm.state.reference_iterations = last_op.pre.state.reference_iterations
        /\ OrbitWellFormed

\* an update with a positive dt right after a cancellation made in the middle
\* of a path, one keyframe visited and others remaining
C17_Witness ==
    /\ last_op.name = "update"
    /\ last_op.after = "cancel"
    /\ DGt(last_op.delta_time, Fin(0))
    /\ dzm.current_keyframe >= 1
    /\ dzm.current_keyframe < Len(dzm.zoom_path)
    /\ ~dzm.state.zoom_animating

\* ------------------------------------------------------------------------
\* Claims about the frame loop (checked under SpecFrame)
\* ------------------------------------------------------------------------
RECURSIVE Iterate(_, _)
\* the iterate z_k of z -> z^2 + c, z_0 = 0
Iterate(c, k) ==
    IF k = 0 THEN CZero
    ELSE CAdd(CMul(Iterate(c, k - 1), Iterate(c, k - 1)), c)

\* data is a reference orbit of the centre c: its element of index i is z_i
IsOrbitOf(data, c) ==
    /\ data # <<>>
    /\ \A i \in 1..Len(data) : data[i].value = Iterate(c, i - 1)

\* the last step drew a frame in Deep_Zoom mode with perturbation in use: the
\* dispatch reads the engine's orbit
Dispatched ==
    /\ last_op.name = "draw"
    /\ ~eng.crashed
    /\ eng.current_fractal_type = "Deep_Zoom"
    /\ eng.fractal_state.use_perturbation

\* C18: in Deep_Zoom mode with perturbation in use, the orbit in the engine's
\* buffer at a dispatch is the one computed for the current centre, whatever
\* changed the centre or the zoom before (a manual jump, the animator's snap or
\* its interpolation).
C18_DispatchUsesCurrentOrbit ==
    Dispatched =>
        IsOrbitOf(eng.reference_orbit.cpu_data,
                  Cx(eng.fractal_state.center_x, eng.fractal_state.center_y))

Num(k, sgn, lg) == [k |-> k, sgn |-> sgn, lg |-> lg]
NumNaN == Num("nan", 0, 0)
NumZero == Num("zero", 0, 0)
NumInf(sgn) == Num("inf", sgn, 0)
NumRes == Num("res", 0, 0)
\* 3.0
NumThree == Num("fin", 1, 477)

\* static_cast<float>(double): magnitudes above FLT_MAX (3.4e38) become
\* infinite, magnitudes below half the smallest subnormal (7e-46) become 0
ToFloat(v) ==
    IF v.k # "fin" THEN v
    ELSE IF v.lg > 38531 THEN NumInf(v.sgn)
    ELSE IF v.lg < 0 - 45154 THEN NumZero
    ELSE v

\* static_cast<float>(value - static_cast<double>(hi)) of split_double and
\* split_highprecision
LowPart(v, hi) ==
    IF v.k = "nan" THEN NumNaN
    ELSE IF v.k = "inf" THEN NumNaN
    ELSE IF hi.k = "inf" THEN NumInf(0 - hi.sgn)
    ELSE IF v.k = "zero" \/ hi.k = "zero" THEN NumZero
    ELSE NumRes

\* the "Ensure zoom is valid" test on data2.x
ZoomIsInvalid(x) == x.k = "zero" \/ x.k = "nan" \/ x.k = "inf"

\* data2.x, data2.y (the zoom, hi and lo) and data3.z (the bailout) of the
\* push constants, for the zoom update_from_state selects
PushConstantsOf(zoom, bailout) ==
    [zoom_hi |-> IF ZoomIsInvalid(ToFloat(zoom)) THEN NumThree ELSE ToFloat(zoom),
     zoom_lo |-> IF ZoomIsInvalid(ToFloat(zoom)) THEN NumZero
                 ELSE LowPart(zoom, ToFloat(zoom)),
     bailout |-> IF bailout < 1 THEN 256 ELSE bailout]

\* ComputeEffect::update_from_state for FractalType::Deep_Zoom: the zoom is
\* hp_coords.zoom when hp_coords.is_valid, state.zoom otherwise
update_from_state(state) ==
    PushConstantsOf(IF state.hp_is_valid THEN state.hp_zoom ELSE state.zoom,
                    state.bailout)

\* the zooms drawn: 3.0, 2.0, 1e-10, 1e-50 (0 as a float), 1e40 (infinite as a
\* float), -3.0, -1e-14, 0, NaN, +inf, -inf
PushZoomValues ==
    {NumThree, Num("fin", 1, 301), Num("fin", 1, 0 - 10000), Num("fin", 1, 0 - 50000),
     Num("fin", 1, 40000), Num("fin", 0 - 1, 477), Num("fin", 0 - 1, 0 - 14000),
     NumZero, NumNaN, NumInf(1), NumInf(0 - 1)}

\* the FractalState fields the Deep_Zoom case reads for data2.x/y and data3.z
PushStates ==
    [zoom : PushZoomValues, hp_is_valid : BOOLEAN, hp_zoom : PushZoomValues,
     bailout : {0, 4}]

InitPush ==
    /\ dzm = NewManager(MaxIter)
    /\ eng = NewEngine(MaxIter)
    /\ \E state \in PushStates :
          last_op = [name |-> "construct", state |-> state,
                     constants |-> PushConstantsOf(NumThree, 4)]

\* one dispatch: the effect's push constants are rebuilt from the state
PushUpdate ==
    /\ last_op.name = "construct"
    /\ last_op' = [name |-> "update_from_state", state |-> last_op.state,
                   constants |-> update_from_state(last_op.state)]
    /\ UNCHANGED <<dzm, eng>>

NextPush == PushUpdate

SpecPush == InitPush /\ [][NextPush]_vars

\* the zoom update_from_state has read
PushedZoom ==
    IF last_op.state.hp_is_valid THEN last_op.state.hp_zoom ELSE last_op.state.zoom

\* a zoom that is zero, negative, NaN or infinite
Degenerate(v) == v.k \in {"zero", "nan", "inf"} \/ (v.k = "fin" /\ v.sgn < 0)

\* C21: for every zoom that is zero, negative, NaN or infinite, the Deep_Zoom
\* push constants carry the safe default zoom, hi = 3.0 and lo = 0.
C21_DegenerateZoomSubstituted ==
    (last_op.name = "update_from_state" /\ Degenerate(PushedZoom)) =>
        /\ last_op.constants.zoom_hi = NumThree
        /\ last_op.constants.zoom_lo = NumZero

\* ------------------------------------------------------------------------
\* Further claims about the reference orbit (C22 under SpecOrbit, C23 under Spec)
\* ------------------------------------------------------------------------
\* C22: computing the reference orbit has no side effects beyond the orbit and
\* its length: compute_reference_orbit does not itself upload to the GPU and
\* does not clear the dirty flag, so is_dirty is still true when it returns.
C22_ComputeLeavesUploadToCaller ==
    OrbitComputed =>
        /\ dzm.reference_orbit.is_dirty
        /\ UploadEvents(dzm.reference_orbit) = {}

\* the orbit's length is the published reference_iterations and its i-th point
\* carries the iteration index i
OrbitIndexed(m) ==
    /\ m.state.reference_iterations = Len(m.reference_orbit.cpu_data)
    /\ \A i \in 1..Len(m.reference_orbit.cpu_data) :
          m.reference_orbit.cpu_data[i].iteration = i - 1

\* C23: in every state reachable through the manager's operations,
\* state.reference_iterations is the length of reference_orbit.cpu_data and
\* orbit[i].iteration = i for every index of the orbit, also after a trim.
C23_OrbitIndexed == OrbitIndexed(dzm)

\* an update that arrived at a keyframe whose orbit escaped and was trimmed to
\* a new length
C23_Witness ==
    /\ last_op.name = "update"
    /\ ~dzm.threw
    /\ Len(dzm.reference_orbit.cpu_data) >= 2
    /\ Len(dzm.reference_orbit.cpu_data) < dzm.state.max_iterations
    /\ last_op.pre.state.reference_iterations # dzm.state.reference_iterations

\* ------------------------------------------------------------------------
\* The two ways the engine fills its GPU orbit buffer, each called on its own:
\* VulkanEngine::initialize_deep_zoom, and the copy and upload_to_gpu the
\* handlers make
\* ------------------------------------------------------------------------
FillZoomValues == {ZPos(477), Pow10(-10)}

InitFill ==
    /\ dzm = NewManager(MaxIter)
    /\ \E cx \in CenterValues, cy \in CenterValues, z \in FillZoomValues,
          n \in 0..MaxIter :
          eng = [NewEngine(n) EXCEPT !.fractal_state.center_x = cx,
                                     !.fractal_state.center_y = cy,
                                     !.fractal_state.zoom = z,
                                     !.current_fractal_type = "Deep_Zoom",
                                     !.initialized = TRUE]
    /\ last_op = [name |-> "construct"]

FillStep(name, w) ==
    /\ dzm' = w.m
    /\ eng' = w.e
    /\ last_op' = [name |-> name]

FillInitialize ==
    /\ Running
    /\ \E env \in RunEnvs :
          FillStep("initialize_deep_zoom", initialize_deep_zoom(Start.m, Start.e, env))

FillUpload ==
    /\ Running
    /\ \E env \in RunEnvs :
          FillStep("upload_to_gpu", World(Start.m, CopyAndUpload(Start.m, Start.e, env.eng_ok)))

NextFill == FillInitialize \/ FillUpload

SpecFill == InitFill /\ [][NextFill]_vars

\* every word of the GPU buffer is a float, two for each point uploaded
FloatPairs(buf) ==
    /\ \A i \in 1..Len(buf.gpu_buffer.words) : buf.gpu_buffer.words[i].t = "f32"
    /\ Len(buf.gpu_buffer.words) % 2 = 0

\* C24: every path by which the GPU orbit buffer is filled (upload_to_gpu and
\* the direct copy in initialize_deep_zoom) writes one pair of float32 (real,
\* imag) for each orbit point, never the raw CPU records.
C24_GpuBufferHoldsFloatPairs ==
    /\ FloatPairs(dzm.reference_orbit)
    /\ FloatPairs(eng.reference_orbit)

\* ------------------------------------------------------------------------
\* One animation run to its end: a client starts it once with playZoomPath or
\* zoomTo, and the frame loop calls update(dt) on every frame, with dt at least
\* MinDeltaTime.  VulkanEngine::run calls update on every iteration for as long
\* as the window is open: the update step is weakly fair.
\* ------------------------------------------------------------------------
\* the positive constant the frame times are bounded below by
MinDeltaTime == Fin(1)
\* frame times
PositiveDeltaTimes == {MinDeltaTime, Rat(5, 2)}
\* the durations passed to zoomTo
LiveDurations == {Fin(0), Fin(2)}

InitLive ==
    /\ \E n \in PathIterationValues, env \in Envs, p \in BOOLEAN :
          dzm = initialize([NewManager(n) EXCEPT !.state.use_perturbation = p], env)
    /\ eng = NewEngine(MaxIter)
    /\ last_op = [name |-> "initialize", updates |-> 0]

LivePlay ==
    /\ last_op.name = "initialize"
    /\ \E path \in AnimatedPaths : dzm' = playZoomPath(Start.m, path)
    /\ last_op' = [name |-> "playZoomPath", updates |-> 0]
    /\ UNCHANGED eng

LiveZoomTo ==
    /\ last_op.name = "initialize"
    /\ \E p \in ZoomToTargets, duration \in LiveDurations :
          dzm' = zoomTo(Start.m, p[1], p[2], p[3], duration)
    /\ last_op' = [name |-> "zoomTo", updates |-> 0]
    /\ UNCHANGED eng

\* last_op counts the updates made while the animation was running
LiveUpdate ==
    /\ ~dzm.threw
    /\ last_op.name # "initialize"
    /\ last_op.updates < MaxLiveUpdates
    /\ \E delta_time \in PositiveDeltaTimes, env \in Envs :
          dzm' = update(Start.m, delta_time, env)
    /\ last_op' = [name |-> "update",
                   updates |-> IF dzm.state.zoom_animating THEN last_op.updates + 1
                               ELSE last_op.updates]
    /\ UNCHANGED eng

NextLive == LivePlay \/ LiveZoomTo \/ LiveUpdate

SpecLive == InitLive /\ [][NextLive]_vars /\ WF_vars(LiveUpdate)

\* the least integer >= a / b, for a >= 0 and b > 0
CeilDiv(a, b) == (a.n * b.d + a.d * b.n - 1) \div (a.d * b.n)

RECURSIVE UpdatesNeeded(_, _)
\* the number of updates of at least MinDeltaTime after which the first k
\* keyframes of path are passed: one for a keyframe reached at once, and
\* duration / MinDeltaTime, rounded up, for a longer one
UpdatesNeeded(path, k) ==
    IF k = 0 THEN 0
    ELSE UpdatesNeeded(path, k - 1)
         + (IF CeilDiv(path[k].duration, MinDeltaTime) < 1 THEN 1
            ELSE CeilDiv(path[k].duration, MinDeltaTime))

\* the animation is over, with full progress, at the last keyframe's values
AnimationDone ==
    /\ ~dzm.state.zoom_animating
    /\ dzm.state.zoom_progress = Fin(1)
    /\ dzm.state.center_x = dzm.zoom_path[Len(dzm.zoom_path)].center_x
    /\ dzm.state.center_y = dzm.zoom_path[Len(dzm.zoom_path)].center_y
    /\ dzm.state.zoom = dzm.zoom_path[Len(dzm.zoom_path)].zoom

\* C25: after zoomTo, or playZoomPath of a non-empty path with finite
\* non-negative durations, repeated update(dt) calls with dt bounded below by a
\* positive constant eventually reach zoom_animating = false with
\* zoom_progress = 1.0, centre and zoom being the last keyframe's values.  As
\* a bound: with dt >= MinDeltaTime that state is reached after at most
\* UpdatesNeeded updates, and no update leaves it.
C25_AnimationCompletes ==
    (/\ last_op.name = "update"
     /\ dzm.zoom_path # <<>>
     /\ \/ last_op.updates >= UpdatesNeeded(dzm.zoom_path, Len(dzm.zoom_path))
        \/ ~dzm.state.zoom_animating) => AnimationDone

\* the end of an animation that took as many updates as its keyframes allow,
\* more than one of them for a single keyframe
C25_Witness ==
    /\ last_op.name = "update"
    /\ AnimationDone
    /\ last_op.updates = UpdatesNeeded(dzm.zoom_path, Len(dzm.zoom_path))
    /\ last_op.updates > Len(dzm.zoom_path)

\* ------------------------------------------------------------------------
\* Further claims about the zoom-path animator (checked under SpecPath)
\* ------------------------------------------------------------------------
\* the last call was an update of a running animation
UpdatedAnimation == Updated /\ last_op.pre.state.zoom_animating

\* C26: a single update(dt) advances the keyframe cursor by at most one
\* keyframe however large dt is: an animation ends only by an update that
\* started at its last keyframe, so a path of n keyframes needs at least n
\* updates, and the first update of a path of more than one keyframe leaves
\* the animation running.
C26_OneKeyframePerUpdate ==
    UpdatedAnimation =>
        /\ dzm.current_keyframe <= last_op.pre.current_keyframe + 1
        /\ ~dzm.state.zoom_animating =>
               last_op.pre.current_keyframe + 1 >= Len(dzm.zoom_path)
        /\ (last_op.after = "playZoomPath" /\ Len(dzm.zoom_path) > 1) =>
               /\ dzm.state.zoom_animating
               /\ dzm.current_keyframe <= 1

\* the first update of a path of several keyframes, with a frame time above the
\* duration of the whole path: the cursor is at 1
C26_Witness ==
    /\ UpdatedAnimation
    /\ last_op.after = "playZoomPath"
    /\ Len(dzm.zoom_path) >= 2
    /\ DGt(SumDurations(dzm.zoom_path, Len(dzm.zoom_path)), Fin(0))
    /\ DGt(last_op.delta_time, SumDurations(dzm.zoom_path, Len(dzm.zoom_path)))
    /\ dzm.current_keyframe = 1
    /\ dzm.state.zoom_animating

\* C27: between a playZoomPath call and the completion of that path, for
\* updates with dt >= 0 and keyframe durations >= 0, zoom_progress lies in
\* [0, 1] and never decreases from one update to the next; it is strictly
\* below 1 until the cursor passes the last keyframe.
C27_ProgressMonotone ==
    UpdatedAnimation =>
        /\ DGe(dzm.state.zoom_progress, Fin(0))
        /\ DGe(Fin(1), dzm.state.zoom_progress)
        /\ DGe(dzm.state.zoom_progress, last_op.pre.state.zoom_progress)
        /\ dzm.current_keyframe < Len(dzm.zoom_path) =>
               DGt(Fin(1), dzm.state.zoom_progress)

\* an update that interpolates after two keyframes were passed: the progress
\* has grown and is below 1
C27_Witness ==
    /\ UpdatedAnimation
    /\ dzm.current_keyframe = 2
    /\ dzm.current_keyframe < Len(dzm.zoom_path)
    /\ DGt(dzm.state.zoom_progress, last_op.pre.state.zoom_progress)
    /\ DGt(Fin(1), dzm.state.zoom_progress)

\* ------------------------------------------------------------------------
\* Further claims about the program (checked under Spec)
\* ------------------------------------------------------------------------
\* the orbit, its flag and the fields compute_reference_orbit publishes are
\* those of the manager the last call started from
ComputeFieldsKept ==
    /\ dzm.reference_orbit.cpu_data = last_op.pre.reference_orbit.cpu_data
    /\ dzm.reference_orbit.is_dirty = last_op.pre.reference_orbit.is_dirty
    /\ dzm.reference_orbit.gpu_buffer = last_op.pre.reference_orbit.gpu_buffer
    /\ dzm.state.reference_iterations = last_op.pre.state.reference_iterations
    /\ dzm.state.precision_mode = last_op.pre.state.precision_mode
    /\ dzm.state.precision_bits = last_op.pre.state.precision_bits
    /\ dzm.state.high_precision_enabled = last_op.pre.state.high_precision_enabled

\* C28: when use_perturbation is false compute_reference_orbit is a no-op
\* (cpu_data, is_dirty, reference_iterations, precision_mode, precision_bits
\* and high_precision_enabled unchanged, no call on the buffer), so arriving at
\* a keyframe moves the coordinates and recomputes nothing.
C28_NoOpWithoutPerturbation ==
    (Snapped /\ ~dzm.state.use_perturbation) =>
        /\ ComputeFieldsKept
        /\ dzm.reference_orbit.log = <<>>

\* an arrival at another centre with perturbation off: the buffer keeps an
\* orbit that is not the orbit of the new centre
C28_Witness ==
    /\ Snapped
    /\ ~dzm.state.use_perturbation
    /\ dzm.state.center_x # last_op.pre.state.center_x
    /\ Len(OrbitData) >= 1
    /\ OrbitData # OrbitOfState
    /\ ComputeFieldsKept

\* ------------------------------------------------------------------------
\* Further claims about the numeric core (checked under SpecOrbit)
\* ------------------------------------------------------------------------
\* the orbits the two paths compute from the manager's centre and
\* max_iterations
DoublePathOrbit ==
    compute_reference_orbit_double(
        dzm, [create_ok |-> TRUE, eng_ok |-> TRUE, cast_ub |-> 0]).reference_orbit.cpu_data
HighPrecisionPathOrbit ==
    compute_reference_orbit_high_precision(
        dzm, [create_ok |-> TRUE, eng_ok |-> TRUE, cast_ub |-> 0]).reference_orbit.cpu_data

\* the centre is a pair of numbers
CenterIsNumber == ~dzm.state.center_x.nan /\ ~dzm.state.center_y.nan

LoopEnvs == {env \in RunEnvs : env.create_ok /\ env.eng_ok}

\* Deep_Zoom selected after VulkanEngine::init, at the default view (perturbation
\* off) or followed by a jump to a deep target (perturbation on)
LoopStarts ==
    UNION {{SelectDeepZoom(AfterEngineInit(env), env)}
           \cup {JumpTo(SelectDeepZoom(AfterEngineInit(env), env), p, env) : p \in DeepTargets}
           : env \in LoopEnvs}

InitLoop ==
    /\ \E w \in LoopStarts : dzm = w.m /\ eng = w.e
    /\ last_op = [name |-> "on_fractal_type_changed", count |-> 0, played |-> FALSE,
                  synced |-> FALSE, framed |-> FALSE]

\* the call name produced w; last_op counts the calls and keeps whether an
\* animation was started, whether run has copied its state into fractal_state
\* since, and whether a frame of the running animation was drawn after that
LoopStep(name, w) ==
    /\ last_op.count < MaxLoopOps
    /\ dzm' = w.m
    /\ eng' = w.e
    /\ last_op' = [name |-> name, count |-> last_op.count + 1,
                   played |-> last_op.played \/ name \in {"playZoomPath", "zoomTo"},
                   synced |-> \/ last_op.synced
                              \/ name = "run_update" /\ w.m.state.zoom_animating,
                   framed |-> \/ last_op.framed
                              \/ /\ name = "draw"
                                 /\ last_op.synced
                                 /\ dzm.state.zoom_animating]

LoopSetMaxIterations ==
    /\ Running
    /\ ~last_op.played
    /\ \E n \in SliderValues :
          LoopStep("set_max_iterations",
                   World(Start.m, [Start.e EXCEPT !.fractal_state.max_iterations = n,
                                                  !.fractal_state.needs_update = TRUE]))

LoopPlay ==
    /\ Running
    /\ ~last_op.played
    /\ \E path \in ZoomPaths :
          LoopStep("playZoomPath", World(playZoomPath(Start.m, path), Start.e))

LoopZoomTo ==
    /\ Running
    /\ ~last_op.played
    /\ \E p \in ZoomToTargets :
          LoopStep("zoomTo",
                   World(zoomTo(Start.m, p[1], p[2], p[3], ZoomToDuration), Start.e))

LoopRunUpdate ==
    /\ Running
    /\ \E delta_time \in DeltaTimes, env \in LoopEnvs :
          LoopStep("run_update", run_update(Start.m, Start.e, delta_time, env))

LoopDraw ==
    /\ Running
    /\ \E env \in LoopEnvs : LoopStep("draw", draw(Start.m, Start.e, env))

NextLoop ==
    \/ LoopSetMaxIterations
    \/ LoopPlay
    \/ LoopZoomTo
    \/ LoopRunUpdate
    \/ LoopDraw

SpecLoop == InitLoop /\ [][NextLoop]_vars

\* C30 as claimed: while a zoom animation runs in Deep_Zoom mode and the user
\* does not change max_iterations, the frame loop keeps the manager's
\* max_iterations non-increasing from frame to frame.
C30_Original ==
    [][(dzm.state.zoom_animating /\ last_op'.name \in {"run_update", "draw"})
        => dzm'.state.max_iterations <= dzm.state.max_iterations]_vars

\* C30 as amended: ... once a frame of the animation has been drawn after run
\* copied reference_iterations into fractal_state, every frame drawn sets the
\* manager's max_iterations to its reference_iterations, the manager's
\* max_iterations is non-increasing from frame to frame, and every orbit
\* computed at a later keyframe has at most that many points: once an orbit
\* escaped after k + 1 points and a frame was drawn, every later orbit of that
\* animation is computed with max_iterations <= k + 1.
C30_IterationsRatchet ==
    [][(dzm.state.zoom_animating /\ last_op.framed)
        => /\ dzm'.state.max_iterations <= dzm.state.max_iterations
           /\ dzm'.state.reference_iterations <= dzm.state.max_iterations
           /\ last_op'.name = "draw" =>
                  dzm'.state.max_iterations = dzm.state.reference_iterations]_vars

\* the animation has arrived at a keyframe after a frame was drawn with the
\* length of an escaped orbit as max_iterations: the new orbit, which does not
\* escape, is cut at that length
C30_Witness ==
    /\ last_op.name = "run_update"
    /\ last_op.framed
    /\ dzm.state.use_perturbation
    /\ dzm.state.max_iterations < eng.fractal_state.max_iterations + 1
    /\ dzm.state.max_iterations < MaxIter
    /\ Len(OrbitData) = dzm.state.max_iterations
    /\ Len(OrbitData) >= 1
    /\ ~EscapedDouble(OrbitData[Len(OrbitData)].value)
    /\ dzm.state.center_x = dzm.zoom_path[Len(dzm.zoom_path)].center_x

============================================================================
